---- MODULE Spec2Model ----
(***************************************************************************)
(* A model of go-lifecycle's Application (src/application.go): the state   *)
(* machine, the forward plugin loops of Initialize / Run / Start, the      *)
(* background listener spawned by init() and the synchronous shutdown(err) *)
(* path.  Caller goroutines are modelled as threads with a call stack; the *)
(* listener goroutine has its own program counter.  Plugins are arbitrary  *)
(* user code: each plugin method returns nil or an error, chosen when it   *)
(* is invoked, and a plugin's Initialize may itself call app.Initialize    *)
(* (README, "Composing plugins").                                          *)
(***************************************************************************)
EXTENDS Integers, Sequences, FiniteSets, TLC

\* ---------------------------------------------------------------- bounds
MaxPlugins == 3   \* plugins ever handed to Initialize
MaxCalls   == 3   \* top-level calls made by the caller goroutines
MaxSignals == 2   \* SIGTERM / SIGINT deliveries
MaxErrors  == 1   \* plugin method calls that return an error

Threads == {1, 2}

\* --------------------------------------------------- src/application.go:16-29
StateInvalid    == 0
StateInitial    == 1
StateRunning    == 2
StateStarted    == 3
StateShutdown   == 4
StateTerminated == 5

\* cap(app.signal), src/application.go:65
SignalCap == 1

\* ------------------------------------------------------------ error values
Err(kind, m, p) == [kind |-> kind, m |-> m, p |-> p]
Nil == Err("nil", "none", 0)
ErrInitializeAfterStartup == Err("ErrInitializeAfterStartup", "none", 0)
ErrRunOrStart == Err("ErrRunOrStart", "none", 0)
\* the error returned by forward method m (Initialize, Run, Start) of plugin p
PluginErr(m, p) == Err("plugin", m, p)
\* the error a plugin's Shutdown returns (one value for every plugin)
ErrShutdown == Err("plugin", "shutdown", 0)

VARIABLES
    once,       \* app.on has fired (sync.Once)
    listeners,  \* number of listener goroutines spawned by init()
    termMode,   \* "fatal": init()'s app.term (log.Fatal on non-nil);
                \* "returns": a term replaced by one that returns (newTestApp)
    state,      \* app.state
    sigbuf,     \* number of values buffered in app.signal
    done,       \* app.done is closed
    closes,     \* number of times close(app.done) was executed
    cancelled,  \* app.cancel() was called
    plugins,    \* app.plugins, a sequence of plugin ids
    lpc,        \* the listener goroutine's position
    li,         \* the listener's loop variable i
    stack,      \* stack[t]: the call stack of caller goroutine t (top = last)
    exited,     \* the process has exited (log.Fatal)
    nextPid,    \* plugin ids handed out so far
    entered,    \* the top-level calls made so far, in order
    nsignals,   \* OS signals written to app.signal so far
    nsent,      \* triggers written to app.signal by shutdown(err)
    teardowns,  \* number of times the listener entered its teardown loop
    calls,      \* plugin method invocations, in order
    nerrors,    \* plugin method invocations that returned an error
    failed,     \* the errors returned by forward methods, in order
    hooks,      \* hook invocations, in order
    terms       \* termination action invocations, in order

vars == << once, listeners, termMode, state, sigbuf, done, closes, cancelled,
           plugins, lpc, li, stack, exited, nextPid, entered, nsignals, nsent,
           teardowns, calls, nerrors, failed, hooks, terms >>

\* ------------------------------------------------------------------ helpers
Top(t) == stack[t][Len(stack[t])]
Idle(t) == stack[t] = << >>
At(t, op, pc) == /\ ~exited
                 /\ stack[t] # << >>
                 /\ Top(t).op = op
                 /\ Top(t).pc = pc

Frame(op, pc, batch, err) ==
    [op |-> op, pc |-> pc, batch |-> batch, idx |-> 1, err |-> err, rej |-> FALSE]

SetTop(t, f) == [stack EXCEPT ![t] = [@ EXCEPT ![Len(@)] = f]]
Push(s, f) == Append(s, f)
Pop(s) == SubSeq(s, 1, Len(s) - 1)

\* A callee has returned: drop its frame, and every caller frame below it
\* whose next statement is `return`.
RECURSIVE Return(_)
Return(s) ==
    LET r == Pop(s)
    IN IF r # << >> /\ r[Len(r)].pc = "ret" THEN Return(r) ELSE r

MayFail == nerrors < MaxErrors
\* whether a plugin method called now returns nil (TRUE) or an error
Outcomes == IF MayFail THEN BOOLEAN ELSE {TRUE}

\* depth: the depth of the invoking call's frame (1: a top-level call; 0: the
\* listener); more: the number of plugins the invoking loop has still to
\* visit after p
Call(m, p, rej, depth, more) ==
    [m |-> m, p |-> p, rej |-> rej, depth |-> depth, more |-> more]
Hook(phase, err) == [phase |-> phase, err |-> err]

\* app.on.Do(app.init), src/application.go:54-86: the first call stores
\* StateInitial, makes the channels, subscribes to the signals and spawns
\* the listener; later calls do nothing.
StateAfterOnce == IF once THEN state ELSE StateInitial
\* init without the sync.Once: every public call spawns a listener
initEveryCall ==
    /\ once' = TRUE
    /\ listeners' = listeners + 1
    /\ lpc' = "wait"
init ==
    /\ once' = TRUE
    /\ listeners' = IF once THEN listeners ELSE listeners + 1
    /\ lpc' = IF once THEN lpc ELSE "wait"

\* ---------------------------------------------------------------- initial
\* new(Application) (README) leaves every field zero until the first public
\* call; newTestApp (tests) forces init and replaces term.
Init ==
    /\ termMode \in {"fatal", "returns"}
    /\ once = (termMode = "returns")
    /\ listeners = IF termMode = "returns" THEN 1 ELSE 0
    /\ state = IF termMode = "returns" THEN StateInitial ELSE StateInvalid
    /\ lpc = IF termMode = "returns" THEN "wait" ELSE "none"
    /\ sigbuf = 0
    /\ done = FALSE
    /\ closes = 0
    /\ cancelled = FALSE
    /\ plugins = << >>
    /\ li = 0
    /\ stack = [t \in Threads |-> << >>]
    /\ exited = FALSE
    /\ nextPid = 0
    /\ entered = << >>
    /\ nsignals = 0
    /\ nsent = 0
    /\ teardowns = 0
    /\ calls = << >>
    /\ nerrors = 0
    /\ failed = << >>
    /\ hooks = << >>
    /\ terms = << >>

\* ------------------------------------------------------ variable groups
onceVars == << once, listeners >>
chanVars == << sigbuf, done, closes >>
budgetVars == << nextPid, entered, nsignals >>
listenerVars == << lpc, li, teardowns, cancelled >>

\* ------------------------------------------------- the listener goroutine
\* src/application.go:71  <-app.signal
ListenerReceive ==
    /\ ~exited
    /\ lpc = "wait"
    /\ sigbuf > 0
    /\ sigbuf' = sigbuf - 1
    /\ lpc' = "stop"
    /\ UNCHANGED << onceVars, termMode, state, done, closes, cancelled, plugins,
                    li, stack, exited, budgetVars, nsent, teardowns, calls,
                    hooks, terms >>
    /\ UNCHANGED << nerrors, failed >>

\* src/application.go:72  signal.Stop(app.signal)
ListenerStop ==
    /\ ~exited
    /\ lpc = "stop"
    /\ lpc' = "store"
    /\ UNCHANGED << onceVars, termMode, state, chanVars, cancelled, plugins, li,
                    stack, exited, budgetVars, nsent, teardowns, calls, hooks,
                    terms >>
    /\ UNCHANGED << nerrors, failed >>

\* A listener that cancels the context when it stores StateShutdown, before
\* its loop.
ListenerStoreCancels ==
    /\ ~exited
    /\ lpc = "store"
    /\ state' = StateShutdown
    /\ cancelled' = TRUE
    /\ lpc' = "range"
    /\ UNCHANGED << onceVars, termMode, chanVars, plugins, li, stack, exited,
                    budgetVars, nsent, teardowns, calls, nerrors, failed, hooks,
                    terms >>

\* src/application.go:74  atomic.StoreInt32(&app.state, StateShutdown)
ListenerStore ==
    /\ ~exited
    /\ lpc = "store"
    /\ state' = StateShutdown
    /\ lpc' = "range"
    /\ UNCHANGED << onceVars, termMode, chanVars, cancelled, plugins, li, stack,
                    exited, budgetVars, nsent, teardowns, calls, hooks, terms >>
    /\ UNCHANGED << nerrors, failed >>

\* src/application.go:76  i := len(app.plugins)
ListenerRange ==
    /\ ~exited
    /\ lpc = "range"
    /\ li' = Len(plugins)
    /\ teardowns' = teardowns + 1
    /\ lpc' = "loop"
    /\ UNCHANGED << onceVars, termMode, state, chanVars, cancelled, plugins,
                    stack, exited, budgetVars, nsent, calls, hooks, terms >>
    /\ UNCHANGED << nerrors, failed >>

\* A teardown loop that visits the registry from its first plugin to its
\* last.
ListenerLoopForward ==
    /\ ~exited
    /\ lpc = "loop"
    /\ li > 0
    /\ LET k == Cardinality({i \in DOMAIN calls : calls[i].m = "shutdown"})
       IN calls' = Append(calls, Call("shutdown", plugins[k + 1], FALSE, 0, li - 1))
    /\ \E ok \in Outcomes :
        IF ok THEN UNCHANGED << hooks, nerrors >>
        ELSE /\ hooks' = Append(hooks, Hook("shutdown", ErrShutdown))
             /\ nerrors' = nerrors + 1
    /\ li' = li - 1
    /\ UNCHANGED << onceVars, termMode, state, chanVars, cancelled, plugins, lpc,
                    stack, exited, budgetVars, nsent, teardowns, failed, terms >>

\* A teardown loop that ends at the first Shutdown error.
ListenerLoopStops ==
    /\ ~exited
    /\ lpc = "loop"
    /\ li > 0
    /\ calls' = Append(calls, Call("shutdown", plugins[li], FALSE, 0, li - 1))
    /\ \E ok \in Outcomes :
        IF ok THEN /\ UNCHANGED << hooks, nerrors >>
                   /\ li' = li - 1
        ELSE /\ hooks' = Append(hooks, Hook("shutdown", ErrShutdown))
             /\ nerrors' = nerrors + 1
             /\ li' = 0
    /\ UNCHANGED << onceVars, termMode, state, chanVars, cancelled, plugins, lpc,
                    stack, exited, budgetVars, nsent, teardowns, failed, terms >>

\* src/application.go:76-81  one iteration: plugins[i-1].Shutdown(app), the
\* hook on error, i--
ListenerLoop ==
    /\ ~exited
    /\ lpc = "loop"
    /\ li > 0
    /\ calls' = Append(calls, Call("shutdown", plugins[li], FALSE, 0, li - 1))
    /\ \E ok \in Outcomes :
        IF ok THEN UNCHANGED << hooks, nerrors >>
        ELSE /\ hooks' = Append(hooks, Hook("shutdown", ErrShutdown))
             /\ nerrors' = nerrors + 1
    /\ li' = li - 1
    /\ UNCHANGED << onceVars, termMode, state, chanVars, cancelled, plugins, lpc,
                    stack, exited, budgetVars, nsent, teardowns, failed, terms >>

\* src/application.go:83  app.cancel(), once the loop has ended
ListenerCancel ==
    /\ ~exited
    /\ lpc = "loop"
    /\ li = 0
    /\ cancelled' = TRUE
    /\ lpc' = "close"
    /\ UNCHANGED << onceVars, termMode, state, chanVars, plugins, li, stack,
                    exited, budgetVars, nsent, teardowns, calls, hooks, terms >>
    /\ UNCHANGED << nerrors, failed >>

\* A listener written as a loop around its body: after close(app.done) it
\* waits for the next trigger again.
ListenerCloseRearm ==
    /\ ~exited
    /\ lpc = "close"
    /\ done' = TRUE
    /\ closes' = closes + 1
    /\ lpc' = "wait"
    /\ UNCHANGED << onceVars, termMode, state, sigbuf, cancelled, plugins, li,
                    stack, exited, budgetVars, nsent, teardowns, calls, nerrors,
                    failed, hooks, terms >>

\* A listener that ends without close(app.done).
ListenerEndsOpen ==
    /\ ~exited
    /\ lpc = "close"
    /\ lpc' = "finished"
    /\ UNCHANGED << onceVars, termMode, state, chanVars, cancelled, plugins, li,
                    stack, exited, budgetVars, nsent, teardowns, calls, nerrors,
                    failed, hooks, terms >>

\* src/application.go:84  close(app.done); the goroutine ends
ListenerClose ==
    /\ ~exited
    /\ lpc = "close"
    /\ done' = TRUE
    /\ closes' = closes + 1
    /\ lpc' = "finished"
    /\ UNCHANGED << onceVars, termMode, state, sigbuf, cancelled, plugins, li,
                    stack, exited, budgetVars, nsent, teardowns, calls, hooks,
                    terms >>
    /\ UNCHANGED << nerrors, failed >>

\* ------------------------------------------------------------- OS signals
\* src/application.go:68  signal.Notify(app.signal, SIGTERM, SIGINT): while
\* the subscription stands (from init to signal.Stop) a signal is written to
\* the channel without blocking, and dropped when the buffer is full.
Subscribed == lpc \in {"wait", "stop"}
Signal ==
    /\ ~exited
    /\ Subscribed
    /\ nsignals < MaxSignals
    /\ IF sigbuf < SignalCap
       THEN /\ sigbuf' = sigbuf + 1
            /\ nsignals' = nsignals + 1
       ELSE UNCHANGED << sigbuf, nsignals >>
    /\ UNCHANGED << onceVars, termMode, state, done, closes, plugins,
                    listenerVars, stack, exited, nextPid, entered, nsent, calls,
                    hooks, terms >>
    /\ UNCHANGED << nerrors, failed >>

\* ------------------------------------------------------ caller goroutines
\* Goroutine 1 is the program's main goroutine; goroutine 2 stands for the
\* goroutines that run beside a `go app.Start()`, the one call that parks its
\* caller (src/unnamed/part_001:313-319): it calls into the Application
\* while goroutine 1 is parked in Start on app.done.
Parked(t) ==
    /\ stack[t] # << >>
    /\ Top(t).op = "Start"
    /\ Top(t).pc = "wait"
MayEnter(t) == \A u \in Threads : u < t => Parked(u)

\* ---------------------------------------------------------- shutdown(err)
ShutdownFrame(err) == Frame("shutdown", "send", << >>, err)

\* A shutdown(err) whose send does not block: like a signal's delivery, the
\* trigger is dropped when the slot is taken.
shutdownSendDrops(t) ==
    /\ At(t, "shutdown", "send")
    /\ once
    /\ sigbuf' = IF sigbuf < SignalCap THEN sigbuf + 1 ELSE sigbuf
    /\ nsent' = IF sigbuf < SignalCap THEN nsent + 1 ELSE nsent
    /\ stack' = SetTop(t, [Top(t) EXCEPT !.pc = "wait"])
    /\ UNCHANGED << onceVars, termMode, state, done, closes, plugins,
                    listenerVars, exited, budgetVars, calls, nerrors, failed,
                    hooks, terms >>

\* src/application.go:178  app.signal <- os.Interrupt (blocks while full)
shutdownSend(t) ==
    /\ At(t, "shutdown", "send")
    /\ once
    /\ sigbuf < SignalCap
    /\ sigbuf' = sigbuf + 1
    /\ nsent' = nsent + 1
    /\ stack' = SetTop(t, [Top(t) EXCEPT !.pc = "wait"])
    /\ UNCHANGED << onceVars, termMode, state, done, closes, plugins,
                    listenerVars, exited, budgetVars, calls, hooks, terms >>
    /\ UNCHANGED << nerrors, failed >>

\* A shutdown(err) that stores StateTerminated without waiting for app.done.
shutdownStoresEarly(t) ==
    /\ At(t, "shutdown", "wait")
    /\ state' = StateTerminated
    /\ stack' = SetTop(t, [Top(t) EXCEPT !.pc = "term"])
    /\ UNCHANGED << onceVars, termMode, chanVars, plugins, listenerVars, exited,
                    budgetVars, nsent, calls, nerrors, failed, hooks, terms >>

\* src/application.go:179-181  <-app.done, then
\* atomic.StoreInt32(&app.state, StateTerminated)
shutdownWait(t) ==
    /\ At(t, "shutdown", "wait")
    /\ done
    /\ state' = StateTerminated
    /\ stack' = SetTop(t, [Top(t) EXCEPT !.pc = "term"])
    /\ UNCHANGED << onceVars, termMode, chanVars, plugins, listenerVars, exited,
                    budgetVars, nsent, calls, nerrors, failed, hooks, terms >>

\* A shutdown(err) that hands the hook and the termination action the error
\* of a plugin's Shutdown when the teardown met one.
shutdownTermEscalates(t) ==
    /\ At(t, "shutdown", "term")
    /\ LET e == IF \E i \in DOMAIN hooks : hooks[i].phase = "shutdown"
                THEN ErrShutdown ELSE Top(t).err
       IN /\ hooks' = Append(hooks, Hook("terminated", e))
          /\ terms' = Append(terms, e)
          /\ IF termMode = "fatal" /\ e # Nil
             THEN /\ exited' = TRUE
                  /\ UNCHANGED stack
             ELSE /\ stack' = [stack EXCEPT ![t] = Return(@)]
                  /\ UNCHANGED exited
    /\ UNCHANGED << onceVars, termMode, state, chanVars, plugins, listenerVars,
                    budgetVars, nsent, calls, nerrors, failed >>

\* src/application.go:182-184 and 55-59  app.hook("terminated", err), then
\* app.term(err): init()'s term is log.Fatal(err) on a non-nil error (the
\* process exits) and returns on nil; a replaced term returns.
shutdownTerm(t) ==
    /\ At(t, "shutdown", "term")
    /\ hooks' = Append(hooks, Hook("terminated", Top(t).err))
    /\ terms' = Append(terms, Top(t).err)
    /\ IF termMode = "fatal" /\ Top(t).err # Nil
       THEN /\ exited' = TRUE
            /\ UNCHANGED stack
       ELSE /\ stack' = [stack EXCEPT ![t] = Return(@)]
            /\ UNCHANGED exited
    /\ UNCHANGED << onceVars, termMode, state, chanVars, plugins, listenerVars,
                    budgetVars, nsent, calls >>
    /\ UNCHANGED << nerrors, failed >>

\* a direct call of shutdown(nil), as Test_ApplicationStart makes it
\* (src/unnamed/part_001:319)
CallShutdown(t) ==
    /\ ~exited
    /\ Idle(t)
    /\ MayEnter(t)
    /\ once
    /\ Len(entered) < MaxCalls
    /\ entered' = Append(entered, "shutdown")
    /\ stack' = [stack EXCEPT ![t] = Push(@, ShutdownFrame(Nil))]
    /\ UNCHANGED << onceVars, termMode, state, chanVars, plugins, listenerVars,
                    exited, nextPid, nsignals, nsent, calls, hooks, terms >>
    /\ UNCHANGED << nerrors, failed >>

\* -------------------------------------------- WithHook / WithValue / Context
\* src/application.go:92-109  on.Do(init), then the assignment of app.hook or
\* app.context, or the read of app.context: one step that any goroutine can
\* take at any time, a plugin's Initialize included, with no effect on the
\* state machine beyond init's.
Configure ==
    /\ ~exited
    /\ init
    /\ state' = StateAfterOnce
    /\ UNCHANGED << termMode, chanVars, plugins, li, teardowns, cancelled, stack,
                    exited, budgetVars, nsent, calls, nerrors, failed, hooks,
                    terms >>

\* ------------------------------------------------------ Initialize(plugins...)
\* The plugins of a call are fresh: ids nextPid+1 .. nextPid+k.
Batch(k) == [j \in 1..k |-> nextPid + j]

\* src/application.go:116-120  on.Do(init); the load of app.state; on a state
\* above StateInitial the call to shutdown(ErrInitializeAfterStartup), after
\* whose return the function goes on at line 122.  `base` is the caller's
\* stack below the new frame.
EnterInitialize(t, base, k) ==
    /\ init
    /\ state' = StateAfterOnce
    /\ nextPid' = nextPid + k
    /\ LET f == Frame("Initialize", "append", Batch(k), Nil)
       IN stack' = [stack EXCEPT ![t] =
            IF StateAfterOnce > StateInitial
            THEN Push(Push(base, [f EXCEPT !.rej = TRUE]),
                      ShutdownFrame(ErrInitializeAfterStartup))
            ELSE Push(base, f)]

Initialize(t) ==
    /\ ~exited
    /\ Idle(t)
    /\ MayEnter(t)
    /\ Len(entered) < MaxCalls
    /\ entered' = Append(entered, "Initialize")
    /\ \E k \in 1..(MaxPlugins - nextPid) : EnterInitialize(t, stack[t], k)
    /\ UNCHANGED << termMode, chanVars, plugins, li, teardowns, cancelled,
                    exited, nsignals, nsent, calls, hooks, terms >>
    /\ UNCHANGED << nerrors, failed >>

\* An Initialize whose loop ranges over app.plugins, the whole registry,
\* instead of its own arguments.
InitializeAppendAll(t) ==
    /\ At(t, "Initialize", "append")
    /\ plugins' = plugins \o Top(t).batch
    /\ stack' = SetTop(t, [Top(t) EXCEPT !.pc = "loop", !.batch = plugins'])
    /\ UNCHANGED << onceVars, termMode, state, chanVars, listenerVars, exited,
                    budgetVars, nsent, calls, nerrors, failed, hooks, terms >>

\* src/application.go:122  app.plugins = append(app.plugins, plugins...)
InitializeAppend(t) ==
    /\ At(t, "Initialize", "append")
    /\ plugins' = plugins \o Top(t).batch
    /\ stack' = SetTop(t, [Top(t) EXCEPT !.pc = "loop"])
    /\ UNCHANGED << onceVars, termMode, state, chanVars, listenerVars, exited,
                    budgetVars, nsent, calls, hooks, terms >>
    /\ UNCHANGED << nerrors, failed >>

\* The frame after its plugin at idx returned nil: the next iteration, or the
\* end of the function.
NextIteration(f) ==
    IF f.idx < Len(f.batch) THEN [f EXCEPT !.idx = f.idx + 1]
    ELSE [f EXCEPT !.pc = "ret"]

\* src/application.go:123-130  one iteration of the loop, the plugin's
\* Initialize returning nil
InitializeLoopOk(t) ==
    /\ At(t, "Initialize", "loop")
    /\ LET f == Top(t)
       IN /\ calls' = Append(calls, Call("initialize", f.batch[f.idx], f.rej, Len(stack[t]),
                                    Len(f.batch) - f.idx))
          /\ stack' = IF f.idx < Len(f.batch) THEN SetTop(t, NextIteration(f))
                       ELSE [stack EXCEPT ![t] = Return(@)]
    /\ UNCHANGED << onceVars, termMode, state, chanVars, plugins, listenerVars,
                    exited, budgetVars, nsent, hooks, terms >>
    /\ UNCHANGED << nerrors, failed >>

\* src/application.go:124-128  the plugin's Initialize returning an error:
\* the hook, shutdown(err), return
InitializeLoopErr(t) ==
    /\ At(t, "Initialize", "loop")
    /\ MayFail
    /\ LET f == Top(t)
           e == PluginErr("initialize", f.batch[f.idx])
       IN /\ calls' = Append(calls, Call("initialize", f.batch[f.idx], f.rej, Len(stack[t]),
                                    Len(f.batch) - f.idx))
          /\ nerrors' = nerrors + 1
          /\ failed' = Append(failed, e)
          /\ hooks' = Append(hooks, Hook("initialization", e))
          /\ stack' = [stack EXCEPT ![t] =
                Push(Push(Pop(@), [f EXCEPT !.pc = "ret"]), ShutdownFrame(e))]
    /\ UNCHANGED << onceVars, termMode, state, chanVars, plugins, listenerVars,
                    exited, budgetVars, nsent, terms >>

\* src/unnamed/part_001:165-176  a composing plugin: its Initialize calls
\* app.Initialize with a further plugin and then returns nil
InitializeLoopNested(t) ==
    /\ At(t, "Initialize", "loop")
    /\ LET f == Top(t)
       IN /\ calls' = Append(calls, Call("initialize", f.batch[f.idx], f.rej, Len(stack[t]),
                                    Len(f.batch) - f.idx))
          /\ nextPid < MaxPlugins
          /\ EnterInitialize(t, Push(Pop(stack[t]), NextIteration(f)), 1)
    /\ UNCHANGED << termMode, chanVars, plugins, li, teardowns, cancelled,
                    exited, entered, nsignals, nsent, hooks, terms >>
    /\ UNCHANGED << nerrors, failed >>

\* -------------------------------------------------------------------- Run()
\* The frame of a forward loop over `snap`, the slice `range` evaluated: the
\* loop, or with no plugin what follows the loop (`after`).
Loop(f, snap, after) ==
    IF snap = << >> THEN after
    ELSE << [f EXCEPT !.pc = "loop", !.batch = snap, !.idx = 1] >>

\* a Run that returns after its loop without calling shutdown(nil)
AfterRunReturns(f) == << >>

\* what follows Run's loop, src/application.go:152: app.shutdown(nil), return
AfterRun(f) == << [f EXCEPT !.pc = "ret"], ShutdownFrame(Nil) >>

\* src/application.go:137-141  on.Do(init); the compare-and-swap from
\* StateInitial to StateRunning; when it fails shutdown(ErrRunOrStart), after
\* whose return the function goes on at line 143
Run(t) ==
    /\ ~exited
    /\ Idle(t)
    /\ MayEnter(t)
    /\ Len(entered) < MaxCalls
    /\ entered' = Append(entered, "Run")
    /\ init
    /\ LET f == Frame("Run", "range", << >>, Nil)
       IN IF StateAfterOnce = StateInitial
          THEN /\ state' = StateRunning
               /\ stack' = [stack EXCEPT ![t] = << f >>]
          ELSE /\ state' = StateAfterOnce
               /\ stack' = [stack EXCEPT ![t] =
                    << [f EXCEPT !.rej = TRUE], ShutdownFrame(ErrRunOrStart) >>]
    /\ UNCHANGED << termMode, chanVars, plugins, li, teardowns, cancelled,
                    exited, nextPid, nsignals, nsent, calls, hooks, terms >>
    /\ UNCHANGED << nerrors, failed >>

\* src/application.go:143  range app.plugins: the slice is read once
RunRange(t) ==
    /\ At(t, "Run", "range")
    /\ stack' = [stack EXCEPT ![t] = Pop(@) \o Loop(Top(t), plugins, AfterRun(Top(t)))]
    /\ UNCHANGED << onceVars, termMode, state, chanVars, plugins, listenerVars,
                    exited, budgetVars, nsent, calls, hooks, terms >>
    /\ UNCHANGED << nerrors, failed >>

\* src/application.go:143-152  one iteration, the plugin's Run returning nil;
\* after the last one app.shutdown(nil)
RunLoopOk(t) ==
    /\ At(t, "Run", "loop")
    /\ LET f == Top(t)
       IN /\ calls' = Append(calls, Call("run", f.batch[f.idx], f.rej, Len(stack[t]),
                                    Len(f.batch) - f.idx))
          /\ stack' = [stack EXCEPT ![t] = Pop(@) \o
                (IF f.idx < Len(f.batch) THEN << NextIteration(f) >> ELSE AfterRun(f))]
    /\ UNCHANGED << onceVars, termMode, state, chanVars, plugins, listenerVars,
                    exited, budgetVars, nsent, hooks, terms >>
    /\ UNCHANGED << nerrors, failed >>

\* src/application.go:144-149  the plugin's Run returning an error: the hook,
\* shutdown(err), return
RunLoopErr(t) ==
    /\ At(t, "Run", "loop")
    /\ MayFail
    /\ LET f == Top(t)
           e == PluginErr("run", f.batch[f.idx])
       IN /\ calls' = Append(calls, Call("run", f.batch[f.idx], f.rej, Len(stack[t]),
                                    Len(f.batch) - f.idx))
          /\ nerrors' = nerrors + 1
          /\ failed' = Append(failed, e)
          /\ hooks' = Append(hooks, Hook("running", e))
          /\ stack' = [stack EXCEPT ![t] =
                Push(Push(Pop(@), [f EXCEPT !.pc = "ret"]), ShutdownFrame(e))]
    /\ UNCHANGED << onceVars, termMode, state, chanVars, plugins, listenerVars,
                    exited, budgetVars, nsent, terms >>

\* ------------------------------------------------------------------ Start()
\* A Start that ends as Run does: shutdown(nil) after its loop.
AfterStartShutsDown(f) == << [f EXCEPT !.pc = "ret"], ShutdownFrame(Nil) >>

\* what follows Start's loop, src/application.go:174: <-app.done
AfterStart(f) == << [f EXCEPT !.pc = "wait"] >>

\* src/application.go:159-163  as Run, to StateStarted
Start(t) ==
    /\ ~exited
    /\ Idle(t)
    /\ MayEnter(t)
    /\ Len(entered) < MaxCalls
    /\ entered' = Append(entered, "Start")
    /\ init
    /\ LET f == Frame("Start", "range", << >>, Nil)
       IN IF StateAfterOnce = StateInitial
          THEN /\ state' = StateStarted
               /\ stack' = [stack EXCEPT ![t] = << f >>]
          ELSE /\ state' = StateAfterOnce
               /\ stack' = [stack EXCEPT ![t] =
                    << [f EXCEPT !.rej = TRUE], ShutdownFrame(ErrRunOrStart) >>]
    /\ UNCHANGED << termMode, chanVars, plugins, li, teardowns, cancelled,
                    exited, nextPid, nsignals, nsent, calls, hooks, terms >>
    /\ UNCHANGED << nerrors, failed >>

\* src/application.go:165  range app.plugins
StartRange(t) ==
    /\ At(t, "Start", "range")
    /\ stack' = [stack EXCEPT ![t] = Pop(@) \o Loop(Top(t), plugins, AfterStart(Top(t)))]
    /\ UNCHANGED << onceVars, termMode, state, chanVars, plugins, listenerVars,
                    exited, budgetVars, nsent, calls, hooks, terms >>
    /\ UNCHANGED << nerrors, failed >>

\* src/application.go:165-172  one iteration, the plugin's Start returning nil
StartLoopOk(t) ==
    /\ At(t, "Start", "loop")
    /\ LET f == Top(t)
       IN /\ calls' = Append(calls, Call("start", f.batch[f.idx], f.rej, Len(stack[t]),
                                    Len(f.batch) - f.idx))
          /\ stack' = [stack EXCEPT ![t] = Pop(@) \o
                (IF f.idx < Len(f.batch) THEN << NextIteration(f) >> ELSE AfterStart(f))]
    /\ UNCHANGED << onceVars, termMode, state, chanVars, plugins, listenerVars,
                    exited, budgetVars, nsent, hooks, terms >>
    /\ UNCHANGED << nerrors, failed >>

\* src/application.go:166-171  the plugin's Start returning an error
StartLoopErr(t) ==
    /\ At(t, "Start", "loop")
    /\ MayFail
    /\ LET f == Top(t)
           e == PluginErr("start", f.batch[f.idx])
       IN /\ calls' = Append(calls, Call("start", f.batch[f.idx], f.rej, Len(stack[t]),
                                    Len(f.batch) - f.idx))
          /\ nerrors' = nerrors + 1
          /\ failed' = Append(failed, e)
          /\ hooks' = Append(hooks, Hook("startup", e))
          /\ stack' = [stack EXCEPT ![t] =
                Push(Push(Pop(@), [f EXCEPT !.pc = "ret"]), ShutdownFrame(e))]
    /\ UNCHANGED << onceVars, termMode, state, chanVars, plugins, listenerVars,
                    exited, budgetVars, nsent, terms >>

\* A Start that returns after its loop without waiting for app.done.
StartReturnsEarly(t) ==
    /\ At(t, "Start", "wait")
    /\ stack' = [stack EXCEPT ![t] = Return(@)]
    /\ UNCHANGED << onceVars, termMode, state, chanVars, plugins, listenerVars,
                    exited, budgetVars, nsent, calls, nerrors, failed, hooks,
                    terms >>

\* src/application.go:174  <-app.done, then Start returns
StartWait(t) ==
    /\ At(t, "Start", "wait")
    /\ done
    /\ stack' = [stack EXCEPT ![t] = Return(@)]
    /\ UNCHANGED << onceVars, termMode, state, chanVars, plugins, listenerVars,
                    exited, budgetVars, nsent, calls, hooks, terms >>
    /\ UNCHANGED << nerrors, failed >>

\* ------------------------------------------------------------ specification
Listener ==
    \/ ListenerReceive
    \/ ListenerStop
    \/ ListenerStore
    \/ ListenerRange
    \/ ListenerLoop
    \/ ListenerCancel
    \/ ListenerClose

Caller(t) ==
    \/ shutdownSend(t)
    \/ shutdownWait(t)
    \/ shutdownTerm(t)
    \/ InitializeAppend(t)
    \/ InitializeLoopOk(t)
    \/ InitializeLoopErr(t)
    \/ InitializeLoopNested(t)
    \/ RunRange(t)
    \/ RunLoopOk(t)
    \/ RunLoopErr(t)
    \/ StartRange(t)
    \/ StartLoopOk(t)
    \/ StartLoopErr(t)
    \/ StartWait(t)

Entry(t) ==
    \/ Initialize(t)
    \/ Run(t)
    \/ Start(t)
    \/ CallShutdown(t)

Next ==
    \/ Listener
    \/ Signal
    \/ Configure
    \/ \E t \in Threads : Caller(t)
    \/ \E t \in Threads : Entry(t)

Spec == Init /\ [][Next]_vars

\* ------------------------------------------------------------ observations
\* the number of times method m of plugin p was invoked
Count(m, p) == Cardinality({i \in DOMAIN calls : calls[i].m = m /\ calls[i].p = p})
Registered == {plugins[i] : i \in DOMAIN plugins}
Triggers == nsent + nsignals

\* ---------------------------------------------------------------------- C1
\* C1: whatever explicit shutdown(err) calls and signals arrive, the
\* listener's teardown loop is entered at most once and no plugin's Shutdown
\* is invoked twice; it is not entered before a trigger was written, and
\* once a trigger was written the listener is never blocked before the loop.
C1_TeardownOnce ==
    /\ teardowns <= 1
    /\ \A p \in 1..nextPid : Count("shutdown", p) <= 1
    /\ (teardowns = 1 => Triggers >= 1)
    /\ (Triggers >= 1 /\ teardowns = 0 /\ ~exited => ENABLED Listener)

\* several triggers were written, by shutdown(err) and by a signal, and the
\* teardown of two plugins or more has run to its end
C1_Witness ==
    /\ nsent >= 1
    /\ nsignals >= 1
    /\ lpc = "finished"
    /\ teardowns = 1
    /\ Len(plugins) >= 2
    /\ \A p \in Registered : Count("shutdown", p) = 1

\* ---------------------------------------------------------------------- C2
\* C2: once the application has terminated, every plugin in the registry has
\* had its Shutdown invoked.
C2_EveryRegisteredShutDown ==
    state = StateTerminated => \A p \in Registered : Count("shutdown", p) >= 1

\* ---------------------------------------------------------------------- C3
Range(s) == {s[i] : i \in DOMAIN s}
\* the position of a registered plugin in app.plugins
Index(p) == CHOOSE i \in DOMAIN plugins : plugins[i] = p
\* the hook label of a forward method
Label(m) ==
    IF m = "run" THEN "running"
    ELSE IF m = "start" THEN "startup" ELSE "initialization"
\* no goroutine of the program can take a step: every caller goroutine has
\* returned or is blocked, and so is the listener
Quiescent == ~ENABLED (Listener \/ \E t \in Threads : Caller(t))

\* C3: when a plugin's Run or Start returned an error in the forward loop,
\* (1) the hook was invoked with that error and the phase's label, (2) the
\* plugins before the failing one had that method invoked exactly once and
\* the plugins after it never, (3) once the termination action has received
\* the error every registered plugin has had exactly one Shutdown call, and
\* (4) the termination action receives that error: when nothing can move any
\* more it has.
C3_ForwardError ==
    \A e \in Range(failed) : e.m \in {"run", "start"} =>
        /\ Hook(Label(e.m), e) \in Range(hooks)
        /\ e.p \in Registered =>
            \A j \in DOMAIN plugins :
                /\ j < Index(e.p) => Count(e.m, plugins[j]) = 1
                /\ j > Index(e.p) => Count(e.m, plugins[j]) = 0
        /\ e \in Range(terms) =>
            \A p \in Registered : Count("shutdown", p) = 1
        /\ Quiescent => e \in Range(terms)

\* ---------------------------------------------------------------------- C4
\* the plugin method invocations as <<method, plugin>> pairs, in order
CallsMP == [i \in DOMAIN calls |-> << calls[i].m, calls[i].p >>]
Reverse(s) == [i \in 1..Len(s) |-> s[Len(s) + 1 - i]]
Each(m, s) == [i \in 1..Len(s) |-> << m, s[i] >>]

\* Initialize calls followed by one Run, which is the last call made; no
\* plugin method returned an error, no signal arrived, and nothing can move
\* any more
C4_InitializeThenRun ==
    /\ ~exited
    /\ nerrors = 0
    /\ nsignals = 0
    /\ Len(entered) >= 2
    /\ \A i \in DOMAIN entered :
        entered[i] = IF i < Len(entered) THEN "Initialize" ELSE "Run"
    /\ Quiescent

\* what C4 says of Run, the state and the termination action: Run has
\* returned, every plugin's Run was invoked once in registration order after
\* the Initialize calls, then every plugin's Shutdown once in reverse order,
\* no Start was invoked, the state is Terminated and the termination action
\* was invoked once, with nil
C4_RunThenTeardown ==
    /\ \A t \in Threads : Idle(t)
    /\ Len(calls) = 3 * Len(plugins)
    /\ SubSeq(CallsMP, Len(plugins) + 1, Len(calls))
         = Each("run", plugins) \o Each("shutdown", Reverse(plugins))
    /\ \A i \in 1..Len(plugins) : calls[i].m = "initialize"
    /\ state = StateTerminated
    /\ terms = << Nil >>
    /\ Hook("terminated", Nil) \in Range(hooks)

\* C4 as stated: with no plugin error and no signal, Initialize followed by
\* Run invokes each plugin's Initialize exactly once in registration order,
\* then each plugin's Run once in registration order, never a Start, then
\* each plugin's Shutdown once in reverse order, ends in state Terminated and
\* invokes the termination action with nil.
C4_Original ==
    C4_InitializeThenRun =>
        /\ C4_RunThenTeardown
        /\ SubSeq(CallsMP, 1, Len(plugins)) = Each("initialize", plugins)

\* C4 amended: as stated, except that the Initialize methods are invoked
\* exactly once each, and in registration order when no plugin's Initialize
\* registered further plugins (a plugin registered from inside another
\* plugin's Initialize is initialized before the rest of the outer batch but
\* registered after it).
C4_Amended ==
    C4_InitializeThenRun =>
        /\ C4_RunThenTeardown
        /\ \A p \in Registered : Count("initialize", p) = 1
        /\ (\A i \in DOMAIN calls : calls[i].depth <= 1)
              => SubSeq(CallsMP, 1, Len(plugins)) = Each("initialize", plugins)

\* Initialize(A, D) with A's Initialize registering B, then Run, has run to
\* its end: three plugins, initialized in an order that is not the
\* registry's
C4_Witness ==
    /\ C4_InitializeThenRun
    /\ Len(plugins) = 3
    /\ \E i \in DOMAIN calls : calls[i].depth > 1
    /\ SubSeq(CallsMP, 1, Len(plugins)) # Each("initialize", plugins)
    /\ state = StateTerminated

\* ---------------------------------------------------------------------- C5
\* the frames of every caller goroutine's stack
Frames == UNION {Range(stack[t]) : t \in Threads}

\* C5: at most one of the Run loop and the Start loop ever invokes plugin
\* methods: a Run or Start whose compare-and-swap failed triggers shutdown
\* with ErrRunOrStart and invokes no plugin's Run or Start, so no Run or
\* Start method is invoked by a rejected call, never both a Run and a Start
\* method, and none twice.
C5_OnePhaseLoop ==
    /\ \A i \in DOMAIN calls : calls[i].m \in {"run", "start"} => ~calls[i].rej
    /\ ~ \E i, j \in DOMAIN calls : calls[i].m = "run" /\ calls[j].m = "start"
    /\ \A p \in 1..nextPid : Count("run", p) <= 1 /\ Count("start", p) <= 1

\* ---------------------------------------------------------------------- C6
\* C6: plugins are appended and initialized only in state Initial: an
\* Initialize call whose state check failed triggers shutdown with
\* ErrInitializeAfterStartup, appends none of its plugins to the registry and
\* invokes none of their Initialize methods.
C6_InitializeGuard ==
    [][ /\ plugins' # plugins => state = StateInitial
        /\ (Len(calls') > Len(calls) /\ calls'[Len(calls')].m = "initialize")
              => state = StateInitial /\ ~calls'[Len(calls')].rej
        /\ \A f \in Frames :
              f.op = "Initialize" /\ f.rej => Range(f.batch) \cap Registered = {} ]_vars

\* ---------------------------------------------------------------------- C7
\* Start was the only call after the Initialize calls, every plugin's Start
\* returned nil before the teardown began, which a signal and no
\* shutdown(err) triggered, and nothing can move any more
C7_SignalWhileParked ==
    /\ ~exited
    /\ nerrors = 0
    /\ nsent = 0
    /\ nsignals >= 1
    /\ Len(plugins) >= 1
    /\ Len(entered) >= 2
    /\ \A i \in DOMAIN entered :
        entered[i] = IF i < Len(entered) THEN "Initialize" ELSE "Start"
    /\ \A i, j \in DOMAIN calls :
        calls[i].m = "shutdown" /\ calls[j].m # "shutdown" => j < i
    /\ \A p \in Registered : Count("start", p) = 1
    /\ Quiescent

\* C7: a signal delivered while the caller is blocked in Start() has the
\* observable outcome of an explicit shutdown(nil): every plugin shut down
\* in reverse order, state Terminated, the hook invoked with "terminated"
\* and nil, the termination action invoked with nil, and Start returned with
\* app.done closed.
C7_SignalAsShutdownNil ==
    C7_SignalWhileParked =>
        /\ SubSeq(CallsMP, Len(calls) - Len(plugins) + 1, Len(calls))
             = Each("shutdown", Reverse(plugins))
        /\ done
        /\ \A t \in Threads : Idle(t)
        /\ state = StateTerminated
        /\ Hook("terminated", Nil) \in Range(hooks)
        /\ terms = << Nil >>

\* ---------------------------------------------------------------------- C8
\* C8: once app.done has closed the state is Terminated and stays so, and no
\* plugin method is invoked afterwards.
C8_AfterDone ==
    [][ /\ done' => state' = StateTerminated
        /\ done => calls' = calls ]_vars

\* ---------------------------------------------------------------------- C9
\* C9: the termination action is invoked at most once and is the last
\* effect: after it (an action that returns) no hook is invoked, no plugin
\* method is called and the termination action is not invoked again.
C9_TermLast ==
    [][ terms # << >> =>
          /\ terms' = terms
          /\ hooks' = hooks
          /\ calls' = calls ]_vars

\* --------------------------------------------------------------------- C10
\* goroutine t is inside a call of Run
InRun(t) == stack[t] # << >> /\ stack[t][1].op = "Run"
\* goroutine t is blocked in shutdown(err) on the send to app.signal: the one
\* slot is taken and no listener is left to empty it
BlockedOnSend(t) ==
    /\ Top(t).op = "shutdown"
    /\ Top(t).pc = "send"
    /\ sigbuf = SignalCap
    /\ lpc # "wait"

\* C10: every call to Run invokes the termination action and returns,
\* whatever its loop does and whatever signals or earlier triggers were
\* delivered: when no goroutine can take a step any more, no goroutine is
\* inside Run and, if Run was called, the termination action has been
\* invoked.
C10_Original ==
    (~exited /\ "Run" \in Range(entered) /\ Quiescent) =>
        /\ \A t \in Threads : ~InRun(t)
        /\ terms # << >>

\* C10 amended: a call to Run that has not returned when nothing can move
\* any more is blocked in shutdown(err) on the send to app.signal, the slot
\* holding an earlier trigger that the listener, past its single receive,
\* will never take; in every other case Run has invoked the termination
\* action and returned.
C10_Amended ==
    (~exited /\ "Run" \in Range(entered) /\ Quiescent) =>
        \A t \in Threads :
            IF InRun(t) THEN BlockedOnSend(t)
            ELSE (\A u \in Threads : ~InRun(u)) => terms # << >>

\* a Run whose loop failed, with a signal delivered too, has invoked the
\* termination action with the plugin's error and returned
C10_Witness ==
    /\ ~exited
    /\ entered # << >>
    /\ entered[Len(entered)] = "Run"
    /\ nsignals >= 1
    /\ \E e \in Range(failed) : e.m = "run" /\ e \in Range(terms)
    /\ \A t \in Threads : Idle(t)
    /\ Quiescent

\* --------------------------------------------------------------------- C11
\* shutdown(e) has been called: the call is in progress or has reached the
\* termination action
ShutdownBegun(e) ==
    \/ \E f \in Frames : f.op = "shutdown" /\ f.err = e
    \/ e \in Range(terms)

\* C11: when a plugin's Initialize returned an error inside a batch, the
\* hook was invoked with "initialization" and that error, shutdown was begun
\* with that error, the plugins after it in the batch never have Initialize
\* invoked, and every plugin of the batch is registered and, by the time the
\* termination action receives the error, every registered plugin has had a
\* Shutdown call.
C11_InitializeError ==
    \A i \in DOMAIN calls :
        LET c == calls[i]
            e == PluginErr("initialize", c.p)
        IN (c.m = "initialize" /\ e \in Range(failed)) =>
            /\ Hook("initialization", e) \in Range(hooks)
            /\ ShutdownBegun(e)
            /\ \A q \in (c.p + 1)..(c.p + c.more) : Count("initialize", q) = 0
            /\ (c.p)..(c.p + c.more) \subseteq Registered
            /\ e \in Range(terms) =>
                \A q \in Registered : Count("shutdown", q) >= 1

\* --------------------------------------------------------------------- C12
\* the errors the hook received under the label "terminated", in order
TerminatedErrs ==
    LET h == SelectSeq(hooks, LAMBDA x : x.phase = "terminated")
    IN [i \in DOMAIN h |-> h[i].err]
\* Initialize calls and then at most one other call, no signal, and one
\* shutdown(err) call at most has sent its trigger
C12_OneShutdown ==
    /\ nsignals = 0
    /\ nsent <= 1
    /\ \A i \in DOMAIN entered : i < Len(entered) => entered[i] = "Initialize"

\* C12: the hook tagged "terminated" and the termination action receive the
\* same error, the one that began the shutdown: the forward error of the
\* failed plugin, or nil when no forward method failed (a successful Run);
\* an error returned by a plugin's Shutdown is reported under the label
\* "shutdown", and only there, and is never the terminal error.
C12_TerminalError ==
    /\ TerminatedErrs = terms
    /\ ErrShutdown \notin Range(terms)
    /\ \A h \in Range(hooks) : (h.err = ErrShutdown) <=> (h.phase = "shutdown")
    /\ \A k \in DOMAIN terms :
        \/ terms[k] \in {Nil, ErrRunOrStart, ErrInitializeAfterStartup}
        \/ terms[k] \in Range(failed)
    /\ (C12_OneShutdown /\ terms # << >>) =>
        terms = << IF failed # << >> THEN failed[1] ELSE Nil >>

\* a Run whose loop succeeded and whose teardown met a Shutdown error has
\* ended: the error was reported under "shutdown" and the terminal error is
\* nil
C12_Witness ==
    /\ C12_OneShutdown
    /\ entered # << >>
    /\ entered[Len(entered)] = "Run"
    /\ Hook("shutdown", ErrShutdown) \in Range(hooks)
    /\ terms = << Nil >>
    /\ Len(plugins) >= 2
    /\ \A t \in Threads : Idle(t)

\* --------------------------------------------------------------------- C13
\* the positions in `entered` of the calls to Run and Start
PhaseCalls == {i \in DOMAIN entered : entered[i] \in {"Run", "Start"}}

\* C13: a guard error is passed to shutdown only on caller misuse:
\* ErrRunOrStart only when Run and Start, or one of them twice, were called,
\* ErrInitializeAfterStartup only when Initialize was called after a Run or
\* Start; a signal alone never makes a first call end with one of them.
\* (Calls of the unexported shutdown are left aside.)
C13_GuardErrorsMeanMisuse ==
    "shutdown" \notin Range(entered) =>
        /\ ShutdownBegun(ErrRunOrStart) => Cardinality(PhaseCalls) >= 2
        /\ ShutdownBegun(ErrInitializeAfterStartup) =>
            \E i \in PhaseCalls : \E j \in DOMAIN entered :
                i < j /\ entered[j] = "Initialize"

\* --------------------------------------------------------------------- C14
\* goroutine t is inside a call of Start
InStart(t) == stack[t] # << >> /\ stack[t][1].op = "Start"
\* a call of Start has returned
StartReturned == "Start" \in Range(entered) /\ \A t \in Threads : ~InStart(t)

\* C14: app.done is closed once and never again, whatever shutdown(err)
\* calls and signals arrive, it is closed once a trigger was written and
\* nothing can move any more, and the callers that wait on it are released
\* only after the close: a shutdown(err) is past its wait, and a Start has
\* returned, only with app.done closed.
C14_DoneClosedOnce ==
    /\ closes <= 1
    /\ done <=> closes = 1
    /\ \A f \in Frames : f.op = "shutdown" /\ f.pc = "term" => done
    /\ terms # << >> => done
    /\ StartReturned => done
    /\ (Triggers >= 1 /\ ~exited /\ Quiescent) => done

\* a Start released by a signal's teardown has returned, and a later
\* shutdown(err) has found app.done closed and reached the termination
\* action
C14_Witness ==
    /\ StartReturned
    /\ nsignals >= 1
    /\ nsent >= 1
    /\ terms # << >>
    /\ closes = 1

\* --------------------------------------------------------------------- C15
\* the plugins whose Shutdown was invoked, in order of invocation
ShutSeq ==
    LET c == SelectSeq(calls, LAMBDA x : x.m = "shutdown")
    IN [i \in DOMAIN c |-> c[i].p]
\* the teardown loop has ended
LoopEnded == lpc \in {"close", "finished"}
\* no signal arrived and no Initialize call was made in a state above
\* Initial: the registry was complete when the teardown began
C15_RegistryComplete ==
    /\ nsignals = 0
    /\ \A f \in Frames : f.op = "Initialize" => ~f.rej
    /\ \A i \in DOMAIN calls : calls[i].m = "initialize" => ~calls[i].rej

\* C15: the Shutdown methods are invoked by the listener alone, in one loop,
\* one after the other, in the exact reverse of the registry's order as the
\* loop found it: from the n plugins registered when the loop began (all of
\* them when the registry was complete) down to the first, however they were
\* registered.
C15_ReverseTeardown ==
    /\ teardowns <= 1
    /\ \A i \in DOMAIN calls : calls[i].m = "shutdown" => calls[i].depth = 0
    /\ \E n \in 0..Len(plugins) :
        /\ Len(ShutSeq) <= n
        /\ \A i \in DOMAIN ShutSeq : ShutSeq[i] = plugins[n + 1 - i]
        /\ lpc = "loop" => li = n - Len(ShutSeq)
        /\ LoopEnded => Len(ShutSeq) = n
        /\ (C15_RegistryComplete /\ ShutSeq # << >>) => n = Len(plugins)

\* three plugins registered by two Initialize calls, one of them from inside
\* a plugin's Initialize, have been shut down
C15_Witness ==
    /\ LoopEnded
    /\ Len(plugins) = 3
    /\ ShutSeq = Reverse(plugins)
    /\ \E i \in DOMAIN calls : calls[i].m = "initialize" /\ calls[i].depth > 1
    /\ Cardinality({i \in DOMAIN entered : entered[i] = "Initialize"}) >= 2

\* --------------------------------------------------------------------- C16
\* the state graph: init()'s store of StateInitial, the two compare-and-swaps
\* from StateInitial, the listener's store of StateShutdown and shutdown's
\* store of StateTerminated.  A first call of Run or Start runs init() and its
\* compare-and-swap in one step of the model, hence the two edges from
\* StateInvalid through StateInitial.
StateEdges ==
    { << StateInvalid, StateInitial >>,
      << StateInvalid, StateRunning >>,
      << StateInvalid, StateStarted >>,
      << StateInitial, StateRunning >>,
      << StateInitial, StateStarted >>,
      << StateInitial, StateShutdown >>,
      << StateRunning, StateShutdown >>,
      << StateStarted, StateShutdown >>,
      << StateShutdown, StateTerminated >> }

\* C16: the state moves only along Initial -> Running, Initial -> Started,
\* {Initial, Running, Started} -> Shutdown, Shutdown -> Terminated (so it
\* never decreases and never visits both Running and Started); it becomes
\* Terminated only with the teardown loop ended and app.done closed, and
\* once Terminated it never changes.
C16_StateGraph ==
    [][ /\ state' # state => << state, state' >> \in StateEdges
        /\ state' >= state
        /\ (state' = StateTerminated /\ state # StateTerminated)
              => done /\ LoopEnded
        /\ state = StateTerminated => state' = StateTerminated ]_vars

\* a Start whose plugins started was parked, released by a shutdown(nil) and
\* has returned; the state went Initial, Started, Shutdown, Terminated
C16_Witness ==
    /\ state = StateTerminated
    /\ StartReturned
    /\ \E p \in Registered : Count("start", p) = 1
    /\ terms = << Nil >>

\* --------------------------------------------------------------------- C17
\* the number of Shutdown errors the hook received
ShutdownErrs == Len(SelectSeq(hooks, LAMBDA x : x.phase = "shutdown"))

\* C17: every error a plugin's Shutdown returns is reported to the hook
\* under "shutdown", and it does not stop the loop: after one the listener
\* is never blocked before close(app.done), the loop goes down the registry
\* without a gap and ends only past its first plugin, and the listener ends
\* with app.done closed.
C17_ShutdownErrorGoesOn ==
    /\ ShutdownErrs + Len(failed) = nerrors
    /\ ShutdownErrs <= Len(ShutSeq)
    /\ ShutdownErrs >= 1 =>
        /\ lpc \in {"loop", "close", "finished"}
        /\ (lpc # "finished" /\ ~exited) => ENABLED Listener
        /\ \A i \in 1..(Len(ShutSeq) - 1) :
              Index(ShutSeq[i + 1]) = Index(ShutSeq[i]) - 1
        /\ LoopEnded => ShutSeq[Len(ShutSeq)] = plugins[1] /\ cancelled
        /\ lpc = "finished" => done

\* a teardown of two plugins or more in which a Shutdown returned an error
\* has gone through the whole registry and closed app.done
C17_Witness ==
    /\ ShutdownErrs = 1
    /\ Len(plugins) >= 2
    /\ ShutSeq = Reverse(plugins)
    /\ done

\* --------------------------------------------------------------------- C18
\* the order of the listener's effects and of shutdown(err)'s: a trigger
\* written, StateShutdown stored, the Shutdown calls, the context cancelled,
\* app.done closed, StateTerminated stored, the "terminated" hook, the
\* termination action
C18_TeardownOrder ==
    /\ lpc \in {"stop", "store", "range", "loop", "close", "finished"}
          => Triggers >= 1
    /\ lpc \in {"range", "loop", "close", "finished"} => state >= StateShutdown
    /\ ShutSeq # << >> => lpc \in {"loop", "close", "finished"}
    /\ cancelled => LoopEnded /\ Triggers >= 1
    /\ done => cancelled
    /\ state = StateTerminated => done
    /\ \A f \in Frames : f.op = "shutdown" /\ f.pc = "term" =>
          state = StateTerminated
    /\ terms # << >> => state = StateTerminated
    /\ Len(terms) = Len(TerminatedErrs)

\* a shutdown(err) that has not written its trigger yet finds nothing of the
\* teardown done
C18_TriggerFirst ==
    \A f \in Frames : f.op = "shutdown" /\ f.pc = "send" =>
        /\ state < StateShutdown
        /\ ShutSeq = << >>
        /\ ~cancelled
        /\ ~done

C19_StartThen(rest) ==
    /\ nsignals = 0
    /\ failed = << >>
    /\ Len(entered) >= 1 + Len(rest)
    /\ \A i \in DOMAIN entered :
        entered[i] = IF i < Len(entered) - Len(rest) THEN "Initialize"
                     ELSE IF i = Len(entered) - Len(rest) THEN "Start"
                     ELSE rest[i - (Len(entered) - Len(rest))]

\* C19: (a) as long as no trigger arrives, a Start whose plugins all started
\* stays inside Start with no Shutdown invoked and app.done open; (b) a
\* shutdown(nil) from another goroutine while Start is parked shuts every
\* plugin down exactly once, invokes no Run, invokes the termination action
\* with nil and lets Start return; (c) on every path Start has returned only
\* with app.done closed.
C19_StartParksUntilTrigger ==
    /\ C19_StartThen(<< >>) =>
        /\ nsent = 0
        /\ ShutSeq = << >>
        /\ ~done
        /\ \E t \in Threads : InStart(t)
        /\ \A t \in Threads : ~ENABLED StartWait(t)
    /\ (C19_StartThen(<< "shutdown" >>) /\ ~exited /\ Quiescent) =>
        /\ \A p \in Registered : Count("shutdown", p) = 1 /\ Count("run", p) = 0
        /\ \A p \in Registered : Count("start", p) = 1
        /\ terms = << Nil >>
        /\ \A t \in Threads : Idle(t)
    /\ StartReturned => done

\* Start was parked with two plugins or more started, another goroutine
\* called shutdown(nil), and both calls have returned
C19_Witness ==
    /\ C19_StartThen(<< "shutdown" >>)
    /\ Len(plugins) >= 2
    /\ \A p \in Registered : Count("shutdown", p) = 1 /\ Count("start", p) = 1
    /\ terms = << Nil >>
    /\ \A t \in Threads : Idle(t)

\* ------------------------------------------------------------------ C20
\* C20: whatever sequence of WithHook, WithValue, Context, Initialize, Run
\* and Start calls is made on one Application, init runs exactly once:
\* before the first call nothing exists (no listener, state Invalid, no
\* signal accepted), from the first call on there is exactly one listener
\* and one done channel, closed at most once and never seen open again, and
\* the state is Initial only as long as no Run or Start was entered, the
\* listener has not stored StateShutdown and no shutdown has terminated:
\* no later call sets it back to Initial.
C20_InitOnce ==
    /\ listeners = IF once THEN 1 ELSE 0
    /\ ~once =>
        /\ state = StateInvalid
        /\ lpc = "none"
        /\ entered = << >>
        /\ nsignals = 0 /\ sigbuf = 0
    /\ once => state # StateInvalid /\ lpc # "none"
    /\ closes <= 1 /\ (done <=> closes = 1)
    /\ state = StateInitial =>
        /\ PhaseCalls = {}
        /\ lpc \in {"wait", "stop", "store"}
        /\ ~done
        /\ \A i \in DOMAIN hooks : hooks[i].phase # "terminated"

\* a zero Application whose init was run by WithHook, WithValue or Context,
\* which then received a signal, and whose first Initialize, running
\* on.Do(init) again, found the state past Initial and was rejected: still
\* one listener
C20_Witness ==
    /\ termMode = "fatal"
    /\ entered = << "Initialize" >>
    /\ \E f \in Frames : f.op = "Initialize" /\ f.rej
    /\ nsignals >= 1
    /\ listeners = 1
    /\ state >= StateShutdown

\* --------------------------------------------------------------------- C21
\* the listener has made its one receive from app.signal
Received == lpc \notin {"none", "wait"}

\* C21: the listener receives from the single-slot channel exactly once: the
\* slot is emptied only by that receive and the listener never waits on the
\* channel again, so the triggers ever written are the one received and the
\* one, at most, that sits in the slot since.  A shutdown(err) that finds the
\* slot taken after the receive stays at its send in every later step: its
\* goroutine's stack never changes, so it reaches neither the "terminated"
\* hook nor the termination action and its caller never returns.
C21_SingleSlot ==
    [][ /\ sigbuf' < sigbuf => lpc = "wait" /\ lpc' = "stop"
        /\ Received => Received'
        /\ sigbuf' <= SignalCap
        /\ Triggers' = sigbuf' + (IF Received' THEN 1 ELSE 0)
        /\ \A t \in Threads :
              (stack[t] # << >> /\ BlockedOnSend(t)) =>
                  /\ stack'[t] = stack[t]
                  /\ sigbuf' = SignalCap
                  /\ terms' # terms =>
                        \E u \in Threads \ {t} : At(u, "shutdown", "term") ]_vars

\* the teardown is over, triggered by a first shutdown(err) that went through
\* to the termination action, and a later shutdown(err) is blocked at its
\* send behind the trigger that another one left in the slot
C21_Witness ==
    /\ ~exited
    /\ lpc = "finished"
    /\ nsent = 2 /\ nsignals = 0
    /\ terms # << >>
    /\ \E t \in Threads : stack[t] # << >> /\ BlockedOnSend(t)
    /\ Quiescent

\* --------------------------------------------------------------------- C22
\* the plugin methods invoked so far, in order, as forward (Initialize, Run,
\* Start) or teardown (Shutdown) calls
Forward(i) == calls[i].m \in {"initialize", "run", "start"}
Teardown(i) == calls[i].m = "shutdown"

\* C22: the teardown loop never overlaps a forward loop: once the listener
\* has invoked a first Shutdown no plugin's Initialize, Run or Start is
\* invoked any more, during the teardown loop or after it, so no plugin has
\* a forward method invoked after its own Shutdown; whether a signal or an
\* error triggered the teardown.
C22_NoOverlap ==
    \A i, j \in DOMAIN calls : (i < j /\ Teardown(i)) => ~Forward(j)

\* --------------------------------------------------------------------- C23
\* the program has made Initialize calls only, no plugin method has returned
\* an error and no signal was delivered: every Initialize call was made in
\* state Initial (or on the zero Application) and its plugins return nil
C23_InitializeOnly ==
    /\ entered # << >>
    /\ \A i \in DOMAIN entered : entered[i] = "Initialize"
    /\ failed = << >>
    /\ nsignals = 0

\* C23: Initialize calls made in state Initial whose plugins return nil leave
\* the state Initial, write no trigger, invoke no hook, no Shutdown and no
\* termination action and are not rejected; each appends its plugins to the
\* end of the registry in argument order, so the registry lists the plugins
\* in the order they were handed over, and invokes Initialize on its own
\* plugins only, in argument order: no plugin's Initialize is invoked twice
\* or before the plugin is registered, and when the calls have returned
\* every plugin handed over is registered and was initialized exactly once.
C23_InitializeFrame ==
    C23_InitializeOnly =>
        /\ state = StateInitial
        /\ nsent = 0 /\ sigbuf = 0 /\ lpc = "wait"
        /\ hooks = << >> /\ terms = << >>
        /\ ~cancelled /\ ~done /\ ~exited
        /\ \A f \in Frames : f.op = "Initialize" /\ ~f.rej
        /\ \A i \in DOMAIN calls :
              /\ calls[i].m = "initialize"
              /\ ~calls[i].rej
              /\ calls[i].p \in Registered
        /\ \A i \in DOMAIN plugins : plugins[i] = i
        /\ Len(plugins) <= nextPid
        /\ \A p \in Registered : Count("initialize", p) <= 1
        /\ \A i, j \in DOMAIN calls :
              (i < j /\ calls[i].depth = 1 /\ calls[j].depth = 1)
                  => calls[i].p < calls[j].p
        /\ (\A t \in Threads : Idle(t)) =>
              /\ Len(plugins) = nextPid
              /\ \A p \in Registered : Count("initialize", p) = 1

\* two Initialize calls on a zero Application, three plugins in all, have
\* returned: the registry holds the three in order and each was initialized
\* once
C23_Witness ==
    /\ termMode = "fatal"
    /\ entered = << "Initialize", "Initialize" >>
    /\ failed = << >> /\ nsignals = 0
    /\ \A t \in Threads : Idle(t)
    /\ plugins = << 1, 2, 3 >>
    /\ CallsMP = Each("initialize", plugins)
    /\ state = StateInitial

====
